---- MODULE Spec2Model ----
(***************************************************************************)
(* A model of the AI tutor chatbot's retrieval pipeline:                   *)
(*   src/src/vector_store.py        VectorStoreManager (the embedding index)*)
(*   src/src/document_processor.py  DocumentProcessor (extract, chunk)     *)
(*   src/src/llm_handler.py         LLMHandler (prompt building, generation)*)
(*   src/app.py                     the Streamlit handlers that call them  *)
(*                                                                         *)
(* Text is a sequence of one-character strings.  The Chroma collection is  *)
(* the sequence of records it holds; the persist directory is the sequence *)
(* of records a newly opened collection would hold.  Every call into a     *)
(* library or the OS that may raise takes a fault parameter naming the     *)
(* step that raises.                                                       *)
(***************************************************************************)
EXTENDS Integers, Sequences, FiniteSets, TLC

VARIABLES
    vectorstore,    \* VectorStoreManager.vectorstore: None or the open collection
    disk,           \* the records persisted under CHROMA_PERSIST_DIRECTORY
    dirExists,      \* whether CHROMA_PERSIST_DIRECTORY exists
    op,             \* the operation that ran last
    fault,          \* the step of that operation that raised ("none" if none did)
    ret,            \* the boolean add_documents / clear_vectorstore returned (TRUE after the others)
    results,        \* the sequence a similarity search returned (empty after the others)
    escaped,        \* whether an exception left the last operation
    expected,       \* history: chunks of the adds that returned True since the last clear that returned True
    cleared,        \* history: a clear returned True and no add has returned True since
    pdf,            \* the PDF given to the last extraction
    extracted,      \* what extract_text_from_pdf did with it
    chunkInput,     \* the text given to the last chunk_text
    chunked,        \* what chunk_text did with it
    hasManager,     \* st.session_state.vector_store is not None
    hasLLM,         \* st.session_state.llm_handler is not None
    documents_loaded,   \* st.session_state.documents_loaded
    current_file,   \* st.session_state.current_file
    loaded_files,   \* st.session_state.loaded_files
    messages,       \* st.session_state.messages
    uploaded,       \* the name of the file last uploaded
    ingest,         \* how the last process_pdf of the app ended
    addCalled,      \* whether that process_pdf called add_documents
    prompt,         \* the chat input
    plan,           \* k and the search query chosen for it
    context_docs,   \* the documents given to the LLM handler
    promptContext,  \* the document text placed in the prompt sent to the LLM
    response,       \* what the LLM handler returned
    trace           \* the steps of the last run of the chat input, in order

mgrVars == <<vectorstore, disk, dirExists>>

obsVars == <<op, fault, ret, results, escaped>>

histVars == <<expected, cleared>>

ingestVars == <<pdf, extracted, chunkInput, chunked>>

sessVars == <<hasManager, hasLLM, documents_loaded, current_file, loaded_files,
              messages>>

appVars == <<sessVars, uploaded, ingest, addCalled>>

planVars == <<prompt, plan>>

llmVars == <<context_docs, promptContext, response>>

vars == <<mgrVars, obsVars, histVars, ingestVars, appVars, planVars, llmVars, trace>>

(***************************************************************************)
(* Bounds                                                                  *)
(***************************************************************************)
MaxRecords == 3     \* records the collection may hold
MaxBatch == 2       \* chunks passed to one add_documents call
MaxLoaded == 2      \* records the collection may hold when the app fills it
MaxPages == 2       \* pages of a PDF
MaxFragments == 2   \* fragments a query is made of
MaxRetrieved == 4   \* documents a search returns to the LLM handler
MaxMessages == 4    \* messages in the chat history
LongPage == 600     \* characters of a long page text
ShortPage == 150    \* characters of a short page text

(***************************************************************************)
(* Text and chunks                                                         *)
(***************************************************************************)
\* A text is a sequence of runs: Run(c, n) is the character c repeated n times.
Run(c, n) == [c |-> c, n |-> n]

IsSpace(c) == c \in {" ", "\n"}

RECURSIVE SumCodes(_), TextLen(_), lstrip(_), rstrip(_)
TokenCode(c) == CASE c = "a" -> 1 [] c = "b" -> 2 [] c = "c" -> 4 [] OTHER -> 0

SumCodes(s) == IF s = <<>> THEN 0 ELSE TokenCode(Head(s).c) + SumCodes(Tail(s))

\* len(text)
TextLen(t) == IF t = <<>> THEN 0 ELSE Head(t).n + TextLen(Tail(t))

lstrip(t) == IF t # <<>> /\ IsSpace(Head(t).c) THEN lstrip(Tail(t)) ELSE t

rstrip(t) ==
    IF t # <<>> /\ IsSpace(t[Len(t)].c) THEN rstrip(SubSeq(t, 1, Len(t) - 1)) ELSE t

\* str.strip()
strip(t) == rstrip(lstrip(t))

\* the embedding function: deterministic, the same for chunks and for queries
Embed(text) == SumCodes(text)

Distance(x, y) == IF x >= y THEN x - y ELSE y - x

Document(text, metadata) == [page_content |-> text, metadata |-> metadata]

Metadata(filename) == [source |-> filename, file_path |-> "./uploads/" \o filename]

SampleDocs ==
    { Document(<<Run("a", LongPage)>>, Metadata("f1")),
      Document(<<Run("b", ShortPage)>>, Metadata("f2")) }

SeqsUpTo(S, n) == UNION { [1..m -> S] : m \in 0..n }

Batches == SeqsUpTo(SampleDocs, MaxBatch) \ { <<>> }

SearchQueries == { <<Run("a", 1)>>, <<Run("b", 1)>> }

DEFAULT_K == 3

SearchKs == { 1, DEFAULT_K }

(***************************************************************************)
(* The Chroma collection, as the manager uses it                           *)
(***************************************************************************)
None == [isNone |-> TRUE, records |-> <<>>]

Chroma(recs) == [isNone |-> FALSE, records |-> recs]

Manager(vs, d, de) == [vectorstore |-> vs, disk |-> d, dirExists |-> de]

Raise(m) == [m |-> m, raised |-> TRUE]

Return(m) == [m |-> m, raised |-> FALSE]

\* self.vectorstore.persist(): the directory holds what the collection holds
persist(m, f) ==
    IF f = "persist" THEN Raise(m)
    ELSE Return([m EXCEPT !.disk = m.vectorstore.records, !.dirExists = TRUE])

\* the body of add_documents' try block
add_documents_try(m, documents, f) ==
    IF m.vectorstore.isNone
    THEN \* Chroma.from_documents opens the collection of the directory and adds
         IF f = "embed" THEN Raise(m)
         ELSE persist([m EXCEPT !.vectorstore = Chroma(m.disk \o documents),
                                !.dirExists = TRUE], f)
    ELSE IF f = "embed" THEN Raise(m)
         ELSE persist([m EXCEPT !.vectorstore = Chroma(@.records \o documents)], f)

add_documents(m, documents, f) ==
    LET t == add_documents_try(m, documents, f)
    IN  IF t.raised
        THEN [m |-> t.m, ret |-> FALSE, raised |-> TRUE, escaped |-> FALSE]
        ELSE [m |-> t.m, ret |-> TRUE, raised |-> FALSE, escaped |-> FALSE]

\* the k nearest records, nearest first; ties keep insertion order
RECURSIVE Nearest(_, _, _)
Closest(recs, q) ==
    CHOOSE i \in 1..Len(recs) :
        \A j \in 1..Len(recs) :
            LET di == Distance(Embed(recs[i].page_content), Embed(q))
                dj == Distance(Embed(recs[j].page_content), Embed(q))
            IN  di < dj \/ (di = dj /\ i <= j)

Without(recs, i) == SubSeq(recs, 1, i - 1) \o SubSeq(recs, i + 1, Len(recs))

Nearest(recs, q, k) ==
    IF k = 0 \/ recs = <<>> THEN <<>>
    ELSE LET i == Closest(recs, q)
         IN  <<recs[i]>> \o Nearest(Without(recs, i), q, k - 1)

WithScore(docs, q) ==
    [i \in 1..Len(docs) |-> <<docs[i], Distance(Embed(docs[i].page_content), Embed(q))>>]

\* self.vectorstore.similarity_search(query, k=k), which may raise
chroma_search(vs, query, k, f) ==
    IF f = "search" THEN [results |-> <<>>, raised |-> TRUE]
    ELSE [results |-> Nearest(vs.records, query, k), raised |-> FALSE]

similarity_search(m, query, k, f) ==
    IF m.vectorstore.isNone
    THEN [results |-> <<>>, raised |-> FALSE, escaped |-> FALSE]
    ELSE LET t == chroma_search(m.vectorstore, query, k, f)
         IN  IF t.raised
             THEN [results |-> <<>>, raised |-> TRUE, escaped |-> FALSE]
             ELSE [results |-> t.results, raised |-> FALSE, escaped |-> FALSE]

\* the search without its try/except
similarity_search_with_score_uncaught(m, query, k, f) ==
    IF m.vectorstore.isNone
    THEN [results |-> <<>>, raised |-> FALSE, escaped |-> FALSE]
    ELSE LET t == chroma_search(m.vectorstore, query, k, f)
         IN  [results |-> WithScore(t.results, query), raised |-> t.raised,
              escaped |-> t.raised]

similarity_search_with_score(m, query, k, f) ==
    IF m.vectorstore.isNone
    THEN [results |-> <<>>, raised |-> FALSE, escaped |-> FALSE]
    ELSE LET t == chroma_search(m.vectorstore, query, k, f)
         IN  IF t.raised
             THEN [results |-> <<>>, raised |-> TRUE, escaped |-> FALSE]
             ELSE [results |-> WithScore(t.results, query), raised |-> FALSE,
                   escaped |-> FALSE]

\* the body of clear_vectorstore's try block
clear_rmtree(m, f) ==
    IF m.dirExists
    THEN IF f = "rmtree" THEN Raise(m)
         ELSE IF f = "makedirs"
              THEN Raise([m EXCEPT !.disk = <<>>, !.dirExists = FALSE])
              ELSE Return([m EXCEPT !.disk = <<>>, !.dirExists = TRUE])
    ELSE Return(m)

clear_vectorstore_try(m, f) ==
    IF ~m.vectorstore.isNone
    THEN IF f = "delete_collection" THEN Raise(m)
         ELSE clear_rmtree([m EXCEPT !.vectorstore = None], f)
    ELSE clear_rmtree(m, f)

clear_vectorstore(m, f) ==
    LET t == clear_vectorstore_try(m, f)
    IN  IF t.raised
        THEN [m |-> t.m, ret |-> FALSE, raised |-> TRUE, escaped |-> FALSE]
        ELSE [m |-> t.m, ret |-> TRUE, raised |-> FALSE, escaped |-> FALSE]

\* _load_or_create_vectorstore, after __init__ made the directory
load_or_create_vectorstore(m, f) ==
    IF f = "load" THEN [m EXCEPT !.vectorstore = None, !.dirExists = TRUE]
    ELSE [m EXCEPT !.vectorstore = Chroma(m.disk), !.dirExists = TRUE]

(***************************************************************************)
(* DocumentProcessor                                                       *)
(***************************************************************************)
CHUNK_SIZE == 1000

CHUNK_OVERLAP == 200

\* what page.extract_text() may give: nothing, white space, text
PageTexts == { <<>>, <<Run(" ", 1)>>, <<Run("a", LongPage)>>, <<Run("b", ShortPage)>> }

\* One extraction library on one file: the page texts it yields, and the page
\* at which it raises (0: it does not raise; 1: it raises before any page).
Libs ==
    { l \in [pages : SeqsUpTo(PageTexts, MaxPages), raiseAt : 0..(MaxPages + 1)] :
        l.raiseAt <= Len(l.pages) + 1 }

Pdfs == [pdfplumber : Libs, pypdf2 : Libs]

NoPdf == [pdfplumber |-> [pages |-> <<>>, raiseAt |-> 0],
          pypdf2 |-> [pages |-> <<>>, raiseAt |-> 0]]

SEP == <<Run("\n", 2)>>

RECURSIVE ReadUpTo(_, _, _)
\* for page in pages: page_text = page.extract_text(); if page_text: text += page_text + "\n\n"
ReadUpTo(pages, n, text) ==
    IF n = 0 THEN text
    ELSE LET before == ReadUpTo(pages, n - 1, text)
         IN  IF pages[n] # <<>> THEN before \o pages[n] \o SEP ELSE before

ReadPages(lib, text) ==
    IF lib.raiseAt = 0
    THEN [text |-> ReadUpTo(lib.pages, Len(lib.pages), text), raised |-> FALSE]
    ELSE [text |-> ReadUpTo(lib.pages, lib.raiseAt - 1, text), raised |-> TRUE]

\* an extraction that also falls back when the first strategy yields no text
extract_text_from_pdf_on_empty(f) ==
    LET first == ReadPages(f.pdfplumber, <<>>)
    IN  IF ~first.raised /\ strip(first.text) # <<>>
        THEN [raised |-> FALSE, text |-> strip(first.text), fallback |-> FALSE]
        ELSE LET second == ReadPages(f.pypdf2, first.text)
             IN  IF second.raised
                 THEN [raised |-> TRUE, text |-> <<>>, fallback |-> TRUE]
                 ELSE [raised |-> FALSE, text |-> strip(second.text), fallback |-> TRUE]

extract_text_from_pdf(f) ==
    LET first == ReadPages(f.pdfplumber, <<>>)
    IN  IF ~first.raised
        THEN [raised |-> FALSE, text |-> strip(first.text), fallback |-> FALSE]
        ELSE LET second == ReadPages(f.pypdf2, first.text)
             IN  IF second.raised
                 THEN [raised |-> TRUE, text |-> <<>>, fallback |-> TRUE]
                 ELSE [raised |-> FALSE, text |-> strip(second.text), fallback |-> TRUE]

NotExtracted == [raised |-> FALSE, text |-> <<>>, fallback |-> FALSE]

\* RecursiveCharacterTextSplitter on the separator "\n\n", which it keeps at
\* the start of the piece that follows it; empty pieces are dropped.  Every
\* piece of the model is shorter than CHUNK_SIZE, so no piece is split further.
RECURSIVE SplitPieces(_, _), Flatten(_), DropForOverlap(_, _, _), MergeSplits(_, _, _, _)
IsSep(r) == r.c = "\n" /\ r.n = 2

SplitPieces(text, piece) ==
    IF text = <<>> THEN (IF piece = <<>> THEN <<>> ELSE <<piece>>)
    ELSE IF IsSep(Head(text))
         THEN (IF piece = <<>> THEN <<>> ELSE <<piece>>)
                  \o SplitPieces(Tail(text), <<Head(text)>>)
         ELSE SplitPieces(Tail(text), Append(piece, Head(text)))

Flatten(pieces) == IF pieces = <<>> THEN <<>> ELSE Head(pieces) \o Flatten(Tail(pieces))

\* _join_docs: the pieces joined and stripped, or nothing when that is empty
JoinDocs(current) ==
    LET t == strip(Flatten(current)) IN IF t = <<>> THEN <<>> ELSE <<t>>

\* the while loop of _merge_splits: drop leading pieces down to the overlap
DropForOverlap(current, total, len) ==
    IF total > CHUNK_OVERLAP \/ (total + len > CHUNK_SIZE /\ total > 0)
    THEN DropForOverlap(Tail(current), total - TextLen(Head(current)), len)
    ELSE [current |-> current, total |-> total]

MergeSplits(splits, docs, current, total) ==
    IF splits = <<>> THEN docs \o JoinDocs(current)
    ELSE LET d == Head(splits)
             len == TextLen(d)
         IN  IF total + len > CHUNK_SIZE /\ current # <<>>
             THEN LET kept == DropForOverlap(current, total, len)
                  IN  MergeSplits(Tail(splits), docs \o JoinDocs(current),
                                  Append(kept.current, d), kept.total + len)
             ELSE MergeSplits(Tail(splits), docs, Append(current, d), total + len)

split_text(text) == MergeSplits(SplitPieces(text, <<>>), <<>>, <<>>, 0)

chunk_text(text, metadata) ==
    LET pieces == split_text(text)
    IN  [raised |-> FALSE,
         chunks |-> [i \in 1..Len(pieces) |-> Document(pieces[i], metadata)]]

NotChunked == [raised |-> FALSE, chunks |-> <<>>]

\* a process_pdf without the test for empty text
process_pdf_unchecked(f, filename) ==
    LET e == extract_text_from_pdf(f)
    IN  IF e.raised THEN [raised |-> "extraction", chunks |-> <<>>]
        ELSE LET c == chunk_text(e.text, Metadata(filename))
             IN  [raised |-> "no", chunks |-> c.chunks]

\* DocumentProcessor.process_pdf: raised is "no" or the error it raises
process_pdf(f, filename) ==
    LET e == extract_text_from_pdf(f)
    IN  IF e.raised THEN [raised |-> "extraction", chunks |-> <<>>]
        ELSE IF e.text = <<>> THEN [raised |-> "empty", chunks |-> <<>>]
        ELSE LET c == chunk_text(e.text, Metadata(filename))
             IN  [raised |-> "no", chunks |-> c.chunks]

NoPlan == [k |-> 0, search_query |-> <<>>, is_summary |-> FALSE]

NoResponse == [kind |-> "none", text |-> <<>>]

(***************************************************************************)
(* The manager as a state machine                                          *)
(***************************************************************************)
Self == Manager(vectorstore, disk, dirExists)

\* a manager constructed over an empty directory
MgrInit ==
    /\ vectorstore = Chroma(<<>>)
    /\ disk = <<>>
    /\ dirExists = TRUE
    /\ expected = <<>>
    /\ cleared = FALSE

ObsInit ==
    /\ op = "init"
    /\ fault = "none"
    /\ ret = TRUE
    /\ results = <<>>
    /\ escaped = FALSE

IngestIdle ==
    /\ extracted = NotExtracted
    /\ chunkInput = <<>>
    /\ chunked = NotChunked

\* the session state app.py sets up, around a manager that exists or not
SessionInit(manager) ==
    /\ hasManager = manager
    /\ hasLLM = FALSE
    /\ documents_loaded = FALSE
    /\ current_file = "None"
    /\ loaded_files = <<>>
    /\ messages = <<>>
    /\ uploaded = "None"
    /\ ingest = "init"
    /\ addCalled = FALSE

PlanIdle == plan = NoPlan

LLMIdle ==
    /\ promptContext = <<>>
    /\ response = NoResponse

ChatIdle == trace = <<>>

Init ==
    /\ MgrInit /\ ObsInit
    /\ pdf = NoPdf /\ IngestIdle
    /\ SessionInit(TRUE)
    /\ prompt = <<>> /\ PlanIdle
    /\ context_docs = <<>> /\ LLMIdle /\ ChatIdle

SetManager(m) ==
    /\ vectorstore' = m.vectorstore
    /\ disk' = m.disk
    /\ dirExists' = m.dirExists

AddDocuments ==
    \E documents \in Batches, f \in {"none", "embed", "persist"} :
        \E r \in { add_documents(Self, documents, f) } :
            /\ Len(vectorstore.records) + Len(documents) <= MaxRecords
            /\ Len(disk) + Len(documents) <= MaxRecords
            /\ Len(expected) + Len(documents) <= MaxRecords
            /\ SetManager(r.m)
            /\ op' = "add_documents"
            /\ fault' = IF r.raised THEN f ELSE "none"
            /\ ret' = r.ret
            /\ results' = <<>>
            /\ escaped' = r.escaped
            /\ expected' = IF r.ret THEN expected \o documents ELSE expected
            /\ cleared' = (cleared /\ ~r.ret)
            /\ UNCHANGED <<ingestVars, appVars, planVars, llmVars, trace>>

SimilaritySearch ==
    \E query \in SearchQueries, k \in SearchKs, f \in {"none", "search"} :
        \E r \in { similarity_search(Self, query, k, f) } :
            /\ op' = "similarity_search"
            /\ fault' = IF r.raised THEN f ELSE "none"
            /\ ret' = TRUE
            /\ results' = r.results
            /\ escaped' = r.escaped
            /\ UNCHANGED <<vectorstore, disk, dirExists, expected, cleared>>
            /\ UNCHANGED <<ingestVars, appVars, planVars, llmVars, trace>>

SimilaritySearchWithScore ==
    \E query \in SearchQueries, k \in SearchKs, f \in {"none", "search"} :
        \E r \in { similarity_search_with_score(Self, query, k, f) } :
            /\ op' = "similarity_search_with_score"
            /\ fault' = IF r.raised THEN f ELSE "none"
            /\ ret' = TRUE
            /\ results' = r.results
            /\ escaped' = r.escaped
            /\ UNCHANGED <<vectorstore, disk, dirExists, expected, cleared>>
            /\ UNCHANGED <<ingestVars, appVars, planVars, llmVars, trace>>

ClearVectorstore ==
    \E f \in {"none", "delete_collection", "rmtree", "makedirs"} :
        \E r \in { clear_vectorstore(Self, f) } :
            /\ SetManager(r.m)
            /\ op' = "clear_vectorstore"
            /\ fault' = IF r.raised THEN f ELSE "none"
            /\ ret' = r.ret
            /\ results' = <<>>
            /\ escaped' = r.escaped
            /\ expected' = IF r.ret THEN <<>> ELSE expected
            /\ cleared' = (cleared \/ r.ret)
            /\ UNCHANGED <<ingestVars, appVars, planVars, llmVars, trace>>

\* a new process: VectorStoreManager.__init__ over the same directory
Restart ==
    \E f \in {"none", "load"} :
        /\ SetManager(load_or_create_vectorstore(Self, f))
        /\ op' = "restart"
        /\ fault' = f
        /\ ret' = TRUE
        /\ results' = <<>>
        /\ escaped' = FALSE
        /\ UNCHANGED <<expected, cleared>>
        /\ UNCHANGED <<ingestVars, appVars, planVars, llmVars, trace>>

Next ==
    \/ AddDocuments
    \/ SimilaritySearch
    \/ SimilaritySearchWithScore
    \/ ClearVectorstore
    \/ Restart

Spec == Init /\ [][Next]_vars

(***************************************************************************)
(* The document processor on one PDF                                       *)
(***************************************************************************)
InitIngest ==
    /\ MgrInit /\ ObsInit
    /\ pdf \in Pdfs /\ IngestIdle
    /\ SessionInit(TRUE)
    /\ prompt = <<>> /\ PlanIdle
    /\ context_docs = <<>> /\ LLMIdle /\ ChatIdle

ExtractTextFromPdf ==
    /\ op = "init"
    /\ op' = "extract_text_from_pdf"
    /\ extracted' = extract_text_from_pdf(pdf)
    /\ escaped' = extracted'.raised
    /\ UNCHANGED <<mgrVars, histVars, fault, ret, results, pdf, chunkInput, chunked>>
    /\ UNCHANGED <<appVars, planVars, llmVars, trace>>

\* chunk_text on a text of the PDF: as read, stripped, or blank
ChunkText ==
    /\ op = "init"
    /\ \E text \in { ReadPages(pdf.pdfplumber, <<>>).text,
                      strip(ReadPages(pdf.pdfplumber, <<>>).text),
                      <<Run(" ", 1)>>, <<>> } :
          /\ chunkInput' = text
          /\ chunked' = chunk_text(text, Metadata("f1"))
    /\ op' = "chunk_text"
    /\ escaped' = chunked'.raised
    /\ UNCHANGED <<mgrVars, histVars, fault, ret, results, pdf, extracted>>
    /\ UNCHANGED <<appVars, planVars, llmVars, trace>>

NextIngest == ExtractTextFromPdf \/ ChunkText

SpecIngest == InitIngest /\ [][NextIngest]_vars

(***************************************************************************)
(* The retrieval plan of the chat input (app.py, main)                     *)
(***************************************************************************)
\* A query is a sequence of characters.
Uppers == <<"A", "B", "C", "D", "E", "F", "G", "H", "I", "J", "K", "L", "M", "N", "O", "P", "Q", "R", "S", "T", "U", "V", "W", "X", "Y", "Z">>

Lowers == <<"a", "b", "c", "d", "e", "f", "g", "h", "i", "j", "k", "l", "m", "n", "o", "p", "q", "r", "s", "t", "u", "v", "w", "x", "y", "z">>

\* str.lower(), one character
LowerChar(c) ==
    IF \E i \in 1..Len(Uppers) : Uppers[i] = c
    THEN Lowers[CHOOSE i \in 1..Len(Uppers) : Uppers[i] = c]
    ELSE c

lower(t) == [i \in 1..Len(t) |-> LowerChar(t[i])]

\* sub in t
Contains(t, sub) ==
    \E i \in 0..(Len(t) - Len(sub)) : SubSeq(t, i + 1, i + Len(sub)) = sub

K_BROAD == 10

K_DEFAULT == 5

W_summary == <<"s", "u", "m", "m", "a", "r", "y">>

W_summarize == <<"s", "u", "m", "m", "a", "r", "i", "z", "e">>

W_all == <<"a", "l", "l">>

W_list == <<"l", "i", "s", "t">>

W_laws == <<"l", "a", "w", "s">>

W_chapter == <<"c", "h", "a", "p", "t", "e", "r">>

W_rules == <<"r", "u", "l", "e", "s">>

W_1pct == <<"1", "%">>

W_one_percent == <<"o", "n", "e", " ", "p", "e", "r", "c", "e", "n", "t">>

SUFFIX == <<" ", "i", "m", "p", "r", "o", "v", "e", "m", "e", "n", "t", " ", "t", "i", "n", "y", " ", "g", "a", "i", "n", "s", " ", "m", "a", "r", "g", "i", "n", "a", "l">>

\* the plan without lower() on the keyword tests
retrieval_plan_case_sensitive(p) ==
    LET is_summary == Contains(p, W_summary) \/ Contains(p, W_summarize)
        needs_more_context ==
            \/ Contains(p, W_all)
            \/ Contains(p, W_list)
            \/ Contains(p, W_laws)
            \/ Contains(p, W_chapter)
            \/ Contains(p, W_rules)
    IN  [k |-> IF is_summary \/ needs_more_context THEN K_BROAD ELSE K_DEFAULT,
         search_query |-> IF Contains(p, W_1pct) \/ Contains(lower(p), W_one_percent)
                          THEN p \o SUFFIX ELSE p,
         is_summary |-> is_summary]

\* is_summary, needs_more_context, k and search_query of main()
retrieval_plan(p) ==
    LET is_summary == Contains(lower(p), W_summary) \/ Contains(lower(p), W_summarize)
        needs_more_context ==
            \/ Contains(lower(p), W_all)
            \/ Contains(lower(p), W_list)
            \/ Contains(lower(p), W_laws)
            \/ Contains(lower(p), W_chapter)
            \/ Contains(lower(p), W_rules)
    IN  [k |-> IF is_summary \/ needs_more_context THEN K_BROAD ELSE K_DEFAULT,
         search_query |-> IF Contains(p, W_1pct) \/ Contains(lower(p), W_one_percent)
                          THEN p \o SUFFIX ELSE p,
         is_summary |-> is_summary]

\* what users type: up to MaxFragments of these, one after the other
Fragments ==
    { <<"w", "h", "a", "t", " ", "i", "s", " ">>,
      <<"s", "u", "m">>,
      <<"m", "a", "r", "y">>,
      <<"m", "a", "r", "i", "z", "e">>,
      <<"S", "U", "M", "M", "A", "R", "Y">>,
      <<"a">>,
      <<"l", "l">>,
      <<"L", "i", "s", "t">>,
      <<"l", "a", "w", "s">>,
      <<"C", "h", "a", "p">>,
      <<"t", "e", "r">>,
      <<"r", "u", "l", "e", "s">>,
      <<"1">>,
      <<"%">>,
      <<"t", "h", "e", " ", "1", "%", " ">>,
      <<"O", "n", "e", " ">>,
      <<"p", "e", "r", "c", "e", "n", "t">>,
      <<"o", "n", "e">> }

RECURSIVE Concatenations(_)
Concatenations(n) ==
    IF n = 0 THEN { <<>> }
    ELSE LET shorter == Concatenations(n - 1)
         IN  shorter \cup { s \o f : s \in shorter, f \in Fragments }

Queries == Concatenations(MaxFragments) \ { <<>> }

InitPlan ==
    /\ MgrInit /\ ObsInit
    /\ pdf = NoPdf /\ IngestIdle
    /\ SessionInit(TRUE)
    /\ prompt \in Queries /\ PlanIdle
    /\ context_docs = <<>> /\ LLMIdle /\ ChatIdle

PlanQuery ==
    /\ op = "init"
    /\ op' = "plan"
    /\ plan' = retrieval_plan(prompt)
    /\ UNCHANGED <<mgrVars, histVars, fault, ret, results, escaped, ingestVars, appVars,
                   prompt, llmVars, trace>>

NextPlan == PlanQuery

SpecPlan == InitPlan /\ [][NextPlan]_vars

(***************************************************************************)
(* LLMHandler                                                              *)
(***************************************************************************)
CONTEXT_DOCS == 3       \* context_docs[:3]

SUMMARY_CHARS == 3000   \* text[:3000]

EXPLAIN_CHARS == 500    \* context[:500]

RECURSIVE Take(_, _), JoinTexts(_)
\* text[:n]
Take(t, n) ==
    IF t = <<>> \/ n <= 0 THEN <<>>
    ELSE IF Head(t).n <= n THEN <<Head(t)>> \o Take(Tail(t), n - Head(t).n)
         ELSE <<Run(Head(t).c, n)>>

\* "\n\n".join(texts)
JoinTexts(texts) ==
    IF texts = <<>> THEN <<>>
    ELSE IF Len(texts) = 1 THEN texts[1]
         ELSE texts[1] \o SEP \o JoinTexts(Tail(texts))

PageContents(ds) == [i \in 1..Len(ds) |-> ds[i].page_content]

FirstDocs(ds, n) == SubSeq(ds, 1, IF Len(ds) < n THEN Len(ds) ELSE n)

\* What the generation service returns is a sequence of words.
LLMOutputs == { <<" ", "The", "answer", "\n">>, <<"Error", "is", "a", "word">>, <<>> }

IsBlankWord(w) == w \in {" ", "\n"}

RECURSIVE lstripWords(_), rstripWords(_)
lstripWords(t) == IF t # <<>> /\ IsBlankWord(Head(t)) THEN lstripWords(Tail(t)) ELSE t

rstripWords(t) ==
    IF t # <<>> /\ IsBlankWord(t[Len(t)])
    THEN rstripWords(SubSeq(t, 1, Len(t) - 1)) ELSE t

\* self.llm(prompt) and .strip() of what it returns; the service may raise,
\* and strip raises on something that is no string
llm_strip(out, f) ==
    IF f \in {"llm", "strip"} THEN [raised |-> TRUE, text |-> <<>>, error |-> f]
    ELSE [raised |-> FALSE, text |-> rstripWords(lstripWords(out)), error |-> "none"]

\* f"Error generating {what}: {str(e)}"
ErrorString(what, e) == <<"Error generating " \o what \o ": ", e>>

Str(text) == [kind |-> "str", text |-> text, sources |-> <<>>]

Dict(answer, sources) == [kind |-> "dict", text |-> answer, sources |-> sources]

\* a handler method without its try/except
generate_response_uncaught(out, f) ==
    LET r == llm_strip(out, f)
    IN  [context |-> <<>>, response |-> Str(r.text), raised |-> r.raised,
         escaped |-> r.raised]

generate_response(out, f) ==
    LET r == llm_strip(out, f)
    IN  IF r.raised
        THEN [context |-> <<>>, response |-> Str(ErrorString("response", r.error)),
              raised |-> TRUE, escaped |-> FALSE]
        ELSE [context |-> <<>>, response |-> Str(r.text), raised |-> FALSE,
              escaped |-> FALSE]

chat_with_context(ds, out, f) ==
    LET ctx == JoinTexts(PageContents(FirstDocs(ds, CONTEXT_DOCS)))
        r == llm_strip(out, f)
    IN  IF r.raised
        THEN [context |-> ctx, response |-> Str(ErrorString("response", r.error)),
              raised |-> TRUE, escaped |-> FALSE]
        ELSE [context |-> ctx, response |-> Str(r.text), raised |-> FALSE,
              escaped |-> FALSE]

summarize_text(text, out, f) ==
    LET ctx == Take(text, SUMMARY_CHARS)
        r == llm_strip(out, f)
    IN  IF r.raised
        THEN [context |-> ctx, response |-> Str(ErrorString("summary", r.error)),
              raised |-> TRUE, escaped |-> FALSE]
        ELSE [context |-> ctx, response |-> Str(r.text), raised |-> FALSE,
              escaped |-> FALSE]

explain_term(text, out, f) ==
    LET ctx == IF text # <<>> THEN Take(text, EXPLAIN_CHARS) ELSE <<>>
        r == llm_strip(out, f)
    IN  IF r.raised
        THEN [context |-> ctx, response |-> Str(ErrorString("explanation", r.error)),
              raised |-> TRUE, escaped |-> FALSE]
        ELSE [context |-> ctx, response |-> Str(r.text), raised |-> FALSE,
              escaped |-> FALSE]

\* the chain is made and run inside the try; the retriever's documents are
\* its context and its sources
answer_question(ds, out, f) ==
    IF f \in {"chain", "llm"}
    THEN [context |-> <<>>, response |-> Dict(ErrorString("answer", f), <<>>),
          raised |-> TRUE, escaped |-> FALSE]
    ELSE [context |-> JoinTexts(PageContents(ds)), response |-> Dict(out, ds),
          raised |-> FALSE, escaped |-> FALSE]

LongText == <<Run("a", LongPage)>>

ShortText == <<Run("b", ShortPage)>>

BlankText == <<Run(" ", 1)>>

FullText == <<Run("c", CHUNK_SIZE)>>

\* chunks a search may return
QueryDocs ==
    { Document(FullText, Metadata("f1")),
      Document(LongText, Metadata("f1")),
      Document(ShortText, Metadata("f2")) }

InitLLM ==
    /\ MgrInit /\ ObsInit
    /\ pdf = NoPdf /\ IngestIdle
    /\ SessionInit(TRUE)
    /\ prompt = <<>> /\ PlanIdle
    /\ context_docs \in SeqsUpTo(QueryDocs, MaxRetrieved) /\ LLMIdle /\ ChatIdle

SetLLM(name, f, r) ==
    /\ op' = name
    /\ fault' = f
    /\ promptContext' = r.context
    /\ response' = r.response
    /\ escaped' = r.escaped
    /\ UNCHANGED <<mgrVars, histVars, ret, results, ingestVars, appVars, planVars,
                   context_docs, trace>>

ChatWithContext ==
    /\ op = "init"
    /\ \E out \in LLMOutputs, f \in {"none", "llm", "strip"} :
        \E r \in { chat_with_context(context_docs, out, f) } :
            SetLLM("chat_with_context", f, r)

\* the summary branch of main(): the page contents joined, then summarize_text
SummarizeDocs ==
    /\ op = "init"
    /\ \E out \in LLMOutputs, f \in {"none", "llm", "strip"} :
        \E r \in { summarize_text(JoinTexts(PageContents(context_docs)), out, f) } :
            SetLLM("summarize_text", f, r)

ExplainTerm ==
    /\ op = "init"
    /\ \E out \in LLMOutputs, f \in {"none", "llm", "strip"} :
        \E r \in { explain_term(JoinTexts(PageContents(context_docs)), out, f) } :
            SetLLM("explain_term", f, r)

GenerateResponse ==
    /\ op = "init"
    /\ \E out \in LLMOutputs, f \in {"none", "llm", "strip"} :
        \E r \in { generate_response(out, f) } :
            SetLLM("generate_response", f, r)

AnswerQuestion ==
    /\ op = "init"
    /\ \E out \in LLMOutputs, f \in {"none", "chain", "llm"} :
        \E r \in { answer_question(context_docs, out, f) } :
            SetLLM("answer_question", f, r)

NextLLM ==
    \/ ChatWithContext
    \/ SummarizeDocs
    \/ ExplainTerm
    \/ GenerateResponse
    \/ AnswerQuestion

SpecLLM == InitLLM /\ [][NextLLM]_vars

(***************************************************************************)
(* Properties of the embedding index                                       *)
(***************************************************************************)
Count(x, s) == Cardinality({ i \in 1..Len(s) : s[i] = x })

Elems(s) == { s[i] : i \in 1..Len(s) }

\* the same chunks (text and metadata), whatever the order
SameChunks(s, t) ==
    /\ Len(s) = Len(t)
    /\ \A x \in Elems(s) \cup Elems(t) : Count(x, s) = Count(x, t)

\* what a new process over the same directory holds
Restarted == load_or_create_vectorstore(Self, "none")

SearchOps == {"similarity_search", "similarity_search_with_score"}

\* C1: whenever add_documents returns True, the collection holds the chunks
\* passed in, the directory matches the collection, and a new manager over the
\* directory finds exactly the chunks of the adds that returned True since the
\* last clear that returned True.
C1_AddPersistsExactlySuccessfulAdds ==
    (op = "add_documents" /\ ret) =>
        /\ ~vectorstore.isNone
        /\ vectorstore.records = disk
        /\ \A q \in SearchQueries :
               SameChunks(similarity_search(Restarted, q, Len(disk), "none").results,
                          expected)

\* C2: an add_documents that returns False leaves the collection and the
\* directory as they were before the call.
C2_FailedAddLeavesPriorState ==
    [][(op' = "add_documents" /\ ~ret') => UNCHANGED <<vectorstore, disk>>]_vars

\* C3: after clear_vectorstore returns True the collection is None, the
\* directory exists and holds nothing, every search returns an empty sequence
\* until an add returns True, and the first add that returns True afterwards
\* yields a collection holding only the chunks passed to it.
C3_ClearLeavesFreshIndex ==
    /\ []((op = "clear_vectorstore" /\ ret) =>
              (vectorstore.isNone /\ disk = <<>> /\ dirExists))
    /\ []((cleared /\ op \in SearchOps) => results = <<>>)
    /\ [][(cleared /\ op' = "add_documents" /\ ret') =>
              vectorstore'.records = expected']_vars

\* C4: no exception leaves add_documents, the two searches or
\* clear_vectorstore; when a step raises, add and clear return False and the
\* searches return an empty sequence; a search on a collection that is None
\* or holds no records returns an empty sequence.
C4_NoExceptionEscapes ==
    /\ ~escaped
    /\ (fault # "none" /\ op \in {"add_documents", "clear_vectorstore"}) => ~ret
    /\ (fault # "none" /\ op \in SearchOps) => results = <<>>
    /\ (op \in SearchOps /\ (vectorstore.isNone \/ vectorstore.records = <<>>)) =>
           results = <<>>

C4_Witness ==
    /\ op = "similarity_search_with_score"
    /\ fault = "search"
    /\ vectorstore.records # <<>>
    /\ results = <<>>
    /\ ~escaped

(***************************************************************************)
(* The Streamlit handlers of app.py that ingest and clear                  *)
(***************************************************************************)
Lib(pages, raiseAt) == [pages |-> pages, raiseAt |-> raiseAt]

Pdf(first, second) == [pdfplumber |-> first, pypdf2 |-> second]

\* the files a user uploads: one chunk; two chunks; no text; the first
\* strategy raises and the second reads; both raise
UploadPdfs ==
    { Pdf(Lib(<<LongText>>, 0), Lib(<<>>, 0)),
      Pdf(Lib(<<LongText, LongText>>, 0), Lib(<<>>, 0)),
      Pdf(Lib(<<>>, 0), Lib(<<ShortText>>, 0)),
      Pdf(Lib(<<>>, 1), Lib(<<ShortText>>, 0)),
      Pdf(Lib(<<>>, 1), Lib(<<>>, 1)) }

FileNames == {"f1", "f2"}

Session == [hasManager |-> hasManager, hasLLM |-> hasLLM,
            documents_loaded |-> documents_loaded,
            current_file |-> current_file, loaded_files |-> loaded_files,
            messages |-> messages]

\* initialize_components: the manager and the LLM handler are made once
initialize_components(S, m, f) ==
    IF ~S.hasManager /\ f = "manager_init"
    THEN [ok |-> FALSE, S |-> S, m |-> m]
    ELSE LET m1 == IF S.hasManager THEN m ELSE load_or_create_vectorstore(m, f)
             S1 == [S EXCEPT !.hasManager = TRUE]
         IN  IF ~S1.hasLLM /\ f = "llm_init"
             THEN [ok |-> FALSE, S |-> S1, m |-> m1]
             ELSE [ok |-> TRUE, S |-> [S1 EXCEPT !.hasLLM = TRUE], m |-> m1]

InList(x, xs) == \E i \in 1..Len(xs) : xs[i] = x

\* process_pdf of app.py
app_process_pdf(S, m, file, name, f) ==
    IF f = "save"
    THEN [S |-> S, m |-> m, ingest |-> "save_failed", addCalled |-> FALSE, fault |-> f]
    ELSE
    LET i == initialize_components(S, m, f)
    IN  IF ~i.ok
        THEN [S |-> i.S, m |-> i.m, ingest |-> "init_failed", addCalled |-> FALSE,
              fault |-> f]
        ELSE
        LET c == process_pdf(file, name)
        IN  IF c.raised # "no"
            THEN [S |-> i.S, m |-> i.m, ingest |-> c.raised, addCalled |-> FALSE,
                  fault |-> "none"]
            ELSE
            LET a == add_documents(i.m, c.chunks, f)
            IN  IF a.ret
                THEN [S |-> [i.S EXCEPT !.documents_loaded = TRUE,
                                        !.current_file = name,
                                        !.loaded_files =
                                            IF InList(name, @) THEN @
                                            ELSE Append(@, name)],
                      m |-> a.m, ingest |-> "ok", addCalled |-> TRUE, fault |-> "none"]
                ELSE [S |-> i.S, m |-> a.m, ingest |-> "add_failed",
                      addCalled |-> TRUE, fault |-> f]

\* the "Clear All Documents" button: the result of clear_vectorstore is not read
clear_all_documents(S, m, f) ==
    LET c == IF S.hasManager THEN clear_vectorstore(m, f)
             ELSE [m |-> m, ret |-> TRUE, raised |-> FALSE, escaped |-> FALSE]
    IN  IF S.hasManager
        THEN [S |-> [S EXCEPT !.documents_loaded = FALSE, !.current_file = "None",
                              !.loaded_files = <<>>, !.messages = <<>>],
              m |-> c.m, ret |-> c.ret, fault |-> IF c.raised THEN f ELSE "none"]
        ELSE [S |-> S, m |-> m, ret |-> TRUE, fault |-> "none"]

SetSession(S) ==
    /\ hasManager' = S.hasManager
    /\ hasLLM' = S.hasLLM
    /\ documents_loaded' = S.documents_loaded
    /\ current_file' = S.current_file
    /\ loaded_files' = S.loaded_files
    /\ messages' = S.messages

\* a first run: no manager yet, no persist directory yet
InitApp ==
    /\ vectorstore = None
    /\ disk = <<>>
    /\ dirExists = FALSE
    /\ expected = <<>>
    /\ cleared = FALSE
    /\ ObsInit
    /\ pdf = NoPdf /\ IngestIdle
    /\ SessionInit(FALSE)
    /\ prompt = <<>> /\ PlanIdle
    /\ context_docs = <<>> /\ LLMIdle /\ ChatIdle

ProcessPdf ==
    \E file \in UploadPdfs, name \in FileNames,
       f \in {"none", "save", "manager_init", "load", "llm_init", "embed", "persist"} :
        \E r \in { app_process_pdf(Session, Self, file, name, f) } :
            /\ Len(r.m.vectorstore.records) <= MaxLoaded
            /\ SetSession(r.S)
            /\ SetManager(r.m)
            /\ op' = "process_pdf"
            /\ fault' = r.fault
            /\ ret' = (r.ingest = "ok")
            /\ results' = <<>>
            /\ escaped' = FALSE
            /\ pdf' = file
            /\ uploaded' = name
            /\ ingest' = r.ingest
            /\ addCalled' = r.addCalled
            /\ UNCHANGED <<histVars, extracted, chunkInput, chunked, planVars, llmVars, trace>>

ClearAllDocuments ==
    /\ documents_loaded
    /\ \E f \in {"none", "delete_collection", "rmtree", "makedirs"} :
        \E r \in { clear_all_documents(Session, Self, f) } :
            /\ SetSession(r.S)
            /\ SetManager(r.m)
            /\ op' = "clear_all_documents"
            /\ fault' = r.fault
            /\ ret' = r.ret
            /\ results' = <<>>
            /\ escaped' = FALSE
            /\ pdf' = NoPdf
            /\ uploaded' = "None"
            /\ ingest' = "init"
            /\ addCalled' = FALSE
            /\ UNCHANGED <<histVars, extracted, chunkInput, chunked, planVars, llmVars, trace>>

\* the app is started again: a new session over the same persist directory
AppRestart ==
    /\ op # "app_restart"
    /\ SetSession([hasManager |-> FALSE, hasLLM |-> FALSE, documents_loaded |-> FALSE,
                   current_file |-> "None", loaded_files |-> <<>>,
                   messages |-> <<>>])
    /\ vectorstore' = None
    /\ op' = "app_restart"
    /\ fault' = "none"
    /\ ret' = TRUE
    /\ results' = <<>>
    /\ escaped' = FALSE
    /\ pdf' = NoPdf
    /\ uploaded' = "None"
    /\ ingest' = "init"
    /\ addCalled' = FALSE
    /\ UNCHANGED <<disk, dirExists, histVars, extracted, chunkInput, chunked,
                   planVars, llmVars, trace>>

NextApp == ProcessPdf \/ ClearAllDocuments \/ AppRestart

SpecApp == InitApp /\ [][NextApp]_vars

(***************************************************************************)
(* The chat input of main()                                                *)
(***************************************************************************)
\* a string typed by the user, as document text
AsRuns(q) == [i \in 1..Len(q) |-> Run(q[i], 1)]

\* VectorStoreManager.get_retriever: None without a collection; as_retriever
\* may raise
get_retriever(m, k, f) ==
    IF m.vectorstore.isNone THEN [retriever |-> FALSE, raised |-> FALSE]
    ELSE IF f = "retriever" THEN [retriever |-> FALSE, raised |-> TRUE]
         ELSE [retriever |-> TRUE, raised |-> FALSE]

NoDocumentsMessage == <<"I don't have any documents loaded yet. Please upload a PDF first.">>

Message(role, content) == [role |-> role, content |-> content]

\* a chat input whose except branch appends nothing
chat_input_silent_except(S, m, q, out, f) ==
    LET said == Append(S.messages, Message("user", q))
        p == retrieval_plan(q)
        g == get_retriever(m, p.k, f)
        error_msg == ErrorString("response", f)
    IN  IF g.raised
        THEN [messages |-> said,
              trace |-> <<"user_message", "get_retriever", "except", "assistant_message">>,
              plan |-> p, docs |-> <<>>, context |-> <<>>, response |-> NoResponse,
              fault |-> f]
        ELSE IF ~g.retriever
        THEN [messages |-> Append(said, Message("assistant", NoDocumentsMessage)),
              trace |-> <<"user_message", "get_retriever", "assistant_message">>,
              plan |-> p, docs |-> <<>>, context |-> <<>>,
              response |-> Str(NoDocumentsMessage), fault |-> "none"]
        ELSE
        LET s == similarity_search(m, AsRuns(p.search_query), p.k, f)
            r == IF p.is_summary
                 THEN summarize_text(JoinTexts(PageContents(s.results)), out, f)
                 ELSE chat_with_context(s.results, out, f)
        IN  IF f = "render"
            THEN [messages |-> said,
                  trace |-> <<"user_message", "get_retriever", "similarity_search",
                              "llm", "except", "assistant_message">>,
                  plan |-> p, docs |-> s.results, context |-> r.context,
                  response |-> r.response, fault |-> f]
            ELSE [messages |-> Append(said, Message("assistant", r.response.text)),
                  trace |-> <<"user_message", "get_retriever", "similarity_search",
                              "llm", "assistant_message">>,
                  plan |-> p, docs |-> s.results, context |-> r.context,
                  response |-> r.response,
                  fault |-> IF s.raised \/ r.raised THEN f ELSE "none"]

\* the body of `if prompt := st.chat_input(...)`: q is the prompt, out what
\* the generation service would answer, f the step that raises
chat_input(S, m, q, out, f) ==
    LET said == Append(S.messages, Message("user", q))
        p == retrieval_plan(q)
        g == get_retriever(m, p.k, f)
        error_msg == ErrorString("response", f)
    IN  IF g.raised
        THEN [messages |-> Append(said, Message("assistant", error_msg)),
              trace |-> <<"user_message", "get_retriever", "except", "assistant_message">>,
              plan |-> p, docs |-> <<>>, context |-> <<>>, response |-> NoResponse,
              fault |-> f]
        ELSE IF ~g.retriever
        THEN [messages |-> Append(said, Message("assistant", NoDocumentsMessage)),
              trace |-> <<"user_message", "get_retriever", "assistant_message">>,
              plan |-> p, docs |-> <<>>, context |-> <<>>,
              response |-> Str(NoDocumentsMessage), fault |-> "none"]
        ELSE
        LET s == similarity_search(m, AsRuns(p.search_query), p.k, f)
            r == IF p.is_summary
                 THEN summarize_text(JoinTexts(PageContents(s.results)), out, f)
                 ELSE chat_with_context(s.results, out, f)
        IN  IF f = "render"
            THEN [messages |-> Append(said, Message("assistant", error_msg)),
                  trace |-> <<"user_message", "get_retriever", "similarity_search",
                              "llm", "except", "assistant_message">>,
                  plan |-> p, docs |-> s.results, context |-> r.context,
                  response |-> r.response, fault |-> f]
            ELSE [messages |-> Append(said, Message("assistant", r.response.text)),
                  trace |-> <<"user_message", "get_retriever", "similarity_search",
                              "llm", "assistant_message">>,
                  plan |-> p, docs |-> s.results, context |-> r.context,
                  response |-> r.response,
                  fault |-> IF s.raised \/ r.raised THEN f ELSE "none"]

ChatQueries ==
    { <<"w", "h", "a", "t", " ", "i", "s", " ", "a">>,
      <<"s", "u", "m", "m", "a", "r", "i", "z", "e">> }

ChatOutputs == { <<" ", "The", "answer", "\n">> }

\* main() reaches the chat input only with an API key and documents loaded
ChatInput ==
    /\ hasLLM
    /\ documents_loaded
    /\ Len(messages) + 2 <= MaxMessages
    /\ \E q \in ChatQueries, out \in ChatOutputs,
          f \in {"none", "retriever", "search", "llm", "render"} :
        \E r \in { chat_input(Session, Self, q, out, f) } :
            /\ messages' = r.messages
            /\ trace' = r.trace
            /\ prompt' = q
            /\ plan' = r.plan
            /\ context_docs' = r.docs
            /\ promptContext' = r.context
            /\ response' = r.response
            /\ op' = "chat_input"
            /\ fault' = r.fault
            /\ ret' = TRUE
            /\ results' = r.docs
            /\ escaped' = FALSE
            /\ UNCHANGED <<mgrVars, histVars, ingestVars, hasManager, hasLLM,
                           documents_loaded, current_file, loaded_files, uploaded,
                           ingest, addCalled>>

\* the "Clear Chat" button
ClearChat ==
    /\ messages # <<>>
    /\ messages' = <<>>
    /\ op' = "clear_chat"
    /\ fault' = "none"
    /\ ret' = TRUE
    /\ results' = <<>>
    /\ escaped' = FALSE
    /\ UNCHANGED <<mgrVars, histVars, ingestVars, hasManager, hasLLM,
                   documents_loaded, current_file, loaded_files, uploaded,
                   ingest, addCalled, planVars, llmVars, trace>>

SummarizeRequest == <<"Please provide a summary of the key topics in this document.">>

\* the "Summarize" button: a user message is appended and the script reruns
SummarizeButton ==
    /\ documents_loaded
    /\ Len(messages) + 1 <= MaxMessages
    /\ messages' = Append(messages, Message("user", SummarizeRequest))
    /\ op' = "summarize_button"
    /\ fault' = "none"
    /\ ret' = TRUE
    /\ results' = <<>>
    /\ escaped' = FALSE
    /\ UNCHANGED <<mgrVars, histVars, ingestVars, hasManager, hasLLM,
                   documents_loaded, current_file, loaded_files, uploaded,
                   ingest, addCalled, planVars, llmVars, trace>>

\* a first run in which one PDF has been processed
InitChat ==
    \E file \in UploadPdfs, name \in FileNames :
        \E r \in { app_process_pdf(
                      [hasManager |-> FALSE, hasLLM |-> FALSE,
                       documents_loaded |-> FALSE, current_file |-> "None",
                       loaded_files |-> <<>>, messages |-> <<>>],
                      Manager(None, <<>>, FALSE), file, name, "none") } :
            /\ r.ingest = "ok"
            /\ vectorstore = r.m.vectorstore
            /\ disk = r.m.disk
            /\ dirExists = r.m.dirExists
            /\ expected = <<>>
            /\ cleared = FALSE
            /\ op = "process_pdf" /\ fault = "none" /\ ret = TRUE
            /\ results = <<>> /\ escaped = FALSE
            /\ pdf = file /\ IngestIdle
            /\ hasManager = r.S.hasManager
            /\ hasLLM = r.S.hasLLM
            /\ documents_loaded = r.S.documents_loaded
            /\ current_file = r.S.current_file
            /\ loaded_files = r.S.loaded_files
            /\ messages = r.S.messages
            /\ uploaded = name /\ ingest = r.ingest /\ addCalled = r.addCalled
            /\ prompt = <<>> /\ PlanIdle
            /\ context_docs = <<>> /\ LLMIdle /\ ChatIdle

NextChat ==
    \/ ChatInput
    \/ SummarizeButton
    \/ ClearChat
    \/ ClearAllDocuments

SpecChat == InitChat /\ [][NextChat]_vars

(***************************************************************************)
(* Properties of the document processor                                    *)
(***************************************************************************)
PrimaryRaised == pdf.pdfplumber.raiseAt # 0

\* the text a strategy yields on its own
Produced(lib) == strip(ReadPages(lib, <<>>).text)

ReturnedEmpty == ~extracted.raised /\ extracted.text = <<>>

\* C8 as claimed: the fallback strategy runs whenever the primary strategy
\* raises or completes with no text, and an empty result is returned only
\* after the fallback was tried and produced no text.
C8_FallbackOnFailureOrNoText ==
    op = "extract_text_from_pdf" =>
        /\ (PrimaryRaised \/ Produced(pdf.pdfplumber) = <<>>) => extracted.fallback
        /\ ReturnedEmpty => (extracted.fallback /\ Produced(pdf.pypdf2) = <<>>)

\* C8 as amended: the fallback strategy runs exactly when the primary strategy
\* raises; an empty result is returned only if the primary completed with no
\* text, or it raised and the fallback was tried and neither produced text.
C8_FallbackOnlyOnFailure ==
    op = "extract_text_from_pdf" =>
        /\ extracted.fallback <=> PrimaryRaised
        /\ ReturnedEmpty =>
              \/ ~PrimaryRaised /\ Produced(pdf.pdfplumber) = <<>>
              \/ /\ PrimaryRaised
                 /\ extracted.fallback
                 /\ Produced(pdf.pdfplumber) = <<>>
                 /\ Produced(pdf.pypdf2) = <<>>

C8_Witness ==
    /\ op = "extract_text_from_pdf"
    /\ PrimaryRaised
    /\ extracted.fallback
    /\ ~extracted.raised
    /\ extracted.text # <<>>

\* C12: when the primary strategy raises and the fallback completes, the
\* returned text is the trimmed concatenation of the fallback's non-empty
\* page texts, each followed by the separator, in page order, and nothing
\* the primary strategy had read.
C12_FallbackTextIsFallbackOnly ==
    (op = "extract_text_from_pdf" /\ PrimaryRaised /\ ~extracted.raised) =>
        extracted.text = Produced(pdf.pypdf2)

\* C9: chunk_text on a text that is empty after trimming fails with an error.
C9_ChunkEmptyFails ==
    (op = "chunk_text" /\ strip(chunkInput) = <<>>) => chunked.raised

(***************************************************************************)
(* Properties of ingestion through the app                                 *)
(***************************************************************************)
BothStrategiesFail(f) == f.pdfplumber.raiseAt # 0 /\ f.pypdf2.raiseAt # 0

\* the extraction returns, and what it returns is empty
ExtractedTextEmpty(f) ==
    \/ f.pdfplumber.raiseAt = 0 /\ Produced(f.pdfplumber) = <<>>
    \/ /\ f.pdfplumber.raiseAt # 0
       /\ f.pypdf2.raiseAt = 0
       /\ Produced(f.pdfplumber) = <<>>
       /\ Produced(f.pypdf2) = <<>>

\* C10: when the app's process_pdf reaches the document processor with a PDF
\* on which both extraction strategies fail, or whose extracted text is
\* empty, it ends in that error without calling add_documents; the persist
\* directory's records, documents_loaded, current_file and loaded_files are
\* as before, and so is the collection of an existing manager (a manager
\* made by this call holds what the directory held, or nothing).
C10_FailedIngestionLeavesState ==
    [][(/\ op' = "process_pdf"
        /\ ingest' \notin {"save_failed", "init_failed"}
        /\ (BothStrategiesFail(pdf') \/ ExtractedTextEmpty(pdf')))
       =>
       (/\ ingest' = (IF BothStrategiesFail(pdf') THEN "extraction" ELSE "empty")
        /\ ~addCalled'
        /\ ~ret'
        /\ UNCHANGED <<disk, documents_loaded, current_file, loaded_files>>
        /\ (hasManager => UNCHANGED vectorstore)
        /\ (~hasManager => vectorstore' \in {None, Chroma(disk)}))]_vars

C10_Witness ==
    /\ op = "process_pdf"
    /\ ingest = "empty"
    /\ ExtractedTextEmpty(pdf)
    /\ ~addCalled
    /\ documents_loaded
    /\ current_file = "f1"
    /\ vectorstore.records # <<>>
    /\ disk # <<>>

\* C11: the callers of add_documents and clear_vectorstore change
\* documents_loaded, current_file, loaded_files and messages only when the
\* call returned True; after "Clear All Documents" the session reports no
\* documents loaded only if the collection holds no records.
C11_CallersCheckTheBoolean ==
    [][/\ (op' = "process_pdf" /\ addCalled' /\ ~ret') =>
              UNCHANGED <<documents_loaded, current_file, loaded_files, messages>>
       /\ (op' = "clear_all_documents" /\ ~ret') =>
              UNCHANGED <<documents_loaded, current_file, loaded_files, messages>>
       /\ (op' = "clear_all_documents" /\ ~documents_loaded') =>
              vectorstore'.records = <<>>]_vars

(***************************************************************************)
(* Properties of the retrieval plan                                        *)
(***************************************************************************)
\* sub occurs in t when letter case is ignored (sub is in lower case)
OccursFolded(sub, t) ==
    \E i \in 1..Len(t) :
        \A j \in 1..Len(sub) :
            /\ i + j - 1 <= Len(t)
            /\ LowerChar(t[i + j - 1]) = sub[j]

OccursExact(sub, t) ==
    \E i \in 1..Len(t) :
        \A j \in 1..Len(sub) : i + j - 1 <= Len(t) /\ t[i + j - 1] = sub[j]

BroadKeywords == {W_summary, W_summarize, W_all, W_list, W_laws, W_chapter, W_rules}

WantsBroad(t) == \E w \in BroadKeywords : OccursFolded(w, t)

WantsRewrite(t) == OccursExact(W_1pct, t) \/ OccursFolded(W_one_percent, t)

\* C5: k is 10 when the query, letter case ignored, contains one of the
\* seven keywords and 5 otherwise; the search query is the query followed by
\* " improvement tiny gains marginal" when the query contains "1%" or, letter
\* case ignored, "one percent", and the query itself otherwise; k depends on
\* the keywords alone and the rewrite on the two triggers alone.
C5_PlanIsKeywordFunction ==
    op = "plan" =>
        /\ plan.k = (IF WantsBroad(prompt) THEN 10 ELSE 5)
        /\ plan.search_query =
               (IF WantsRewrite(prompt) THEN prompt \o SUFFIX ELSE prompt)

\* "One percent" is rewritten and keeps k = 5
C5_Witness ==
    /\ op = "plan"
    /\ prompt = <<"O", "n", "e", " ", "p", "e", "r", "c", "e", "n", "t">>
    /\ plan.k = 5
    /\ plan.search_query = prompt \o SUFFIX

(***************************************************************************)
(* Properties of the LLM handler                                           *)
(***************************************************************************)
\* the first j retrieved chunks, whole, joined
WholeLeading(j) == JoinTexts(PageContents(SubSeq(context_docs, 1, j)))

\* C6: on the answer path and on the summary path the document text in the
\* prompt is the first j retrieved chunks, each whole, for some j (white space
\* after the last one aside); on the summary path it is within the budget.
C6_ContextIsWholeLeadingChunks ==
    /\ op \in {"chat_with_context", "summarize_text"} =>
           \E j \in 0..Len(context_docs) : rstrip(promptContext) = WholeLeading(j)
    /\ op = "summarize_text" => TextLen(promptContext) <= 3000

LLMOps == {"chat_with_context", "summarize_text", "explain_term",
           "generate_response", "answer_question"}

Occurrences(e) == { i \in 1..Len(trace') : trace'[i] = e }

\* C13: a run of the chat input appends the user's message and then exactly
\* one assistant message to the history, in every branch; within the run
\* the generation service is called at most once, and only after the
\* similarity search of that run.
C13_OneAssistantMessagePerQuery ==
    [][op' = "chat_input" =>
         /\ Len(messages') = Len(messages) + 2
         /\ SubSeq(messages', 1, Len(messages)) = messages
         /\ messages'[Len(messages) + 1] = Message("user", prompt')
         /\ messages'[Len(messages) + 2].role = "assistant"
         /\ trace'[1] = "user_message"
         /\ Occurrences("assistant_message") = { Len(trace') }
         /\ Cardinality(Occurrences("llm")) <= 1
         /\ \A i \in Occurrences("llm") :
               \E j \in Occurrences("similarity_search") : j < i]_vars

C13_Witness ==
    /\ op = "chat_input"
    /\ fault = "render"
    /\ trace = <<"user_message", "get_retriever", "similarity_search", "llm",
                 "except", "assistant_message">>
    /\ Len(messages) = 4
    /\ messages[3] = Message("user", prompt)
    /\ messages[4] = Message("assistant", <<"Error generating response: ", "render">>)
====
